---- MODULE Spec2Model ----
(***************************************************************************)
(* tone-palette-wizard: the colour-analysis library (src/lib/color-        *)
(* analysis.ts) and the SkinToneAnalyzer component that drives it.         *)
(*                                                                         *)
(* Numbers.  The library computes in IEEE doubles.  Here every number the  *)
(* code computes is an exact rational <<n, d>> with d >= 0; <<0, 0>> is    *)
(* NaN (the only way the code produces it is 0 / 0 and parseInt of a       *)
(* string with no digits).  Rounding to the nearest double is not          *)
(* modelled; the inputs of the specifications below are chosen so that the *)
(* exact value and the double agree on every comparison the code makes.    *)
(*                                                                         *)
(* Strings.  Hex colours are strings; slice, parseInt and toString(16) are *)
(* computed character by character.                                        *)
(***************************************************************************)
EXTENDS Integers, Sequences, FiniteSets, TLC

VARIABLES
    \* ---- SkinToneAnalyzer component (React state) ----
    uploadedImage,   \* useState<string>(''): the object URL shown
    isAnalyzing,     \* useState(false)
    analysis,        \* useState<SkinToneAnalysis | null>(null)
    error,           \* useState<string>('')
    procs,           \* the processImage invocations started so far: the file, the
                     \* position, the locals dominantColors and skinAnalysis, and
                     \* how the invocation ended ("analysis" or the message of
                     \* the error it caught)
    fetches,         \* handleRetry's fetch(uploadedImage) promises in flight
    \* ---- the running extractDominantColors call ----
    call,            \* its position, caller, imageData and k
    pixels,          \* const pixels: the retained samples
    centroids,       \* const centroids
    iter,            \* the loop counter of "for (let iter = 0; iter < 10; iter++)"
    clusters,        \* const clusters of the latest round
    dominantColors,  \* the value the latest call returned
    \* ---- direct calls of analyzeSkinTone ----
    inputs,          \* the colour sequences handed to analyzeSkinTone
    results          \* what each call returned

vars == <<uploadedImage, isAnalyzing, analysis, error, procs, fetches,
          call, pixels, centroids, iter, clusters, dominantColors,
          inputs, results>>

componentVars == <<uploadedImage, isAnalyzing, analysis, error, procs, fetches>>
extractVars == <<call, pixels, centroids, iter, clusters, dominantColors>>
analyzeVars == <<inputs, results>>

\* null, and a value that is not null, as sequences of length 0 and 1
NULL == <<>>
Some(x) == <<x>>

(***************************************************************************)
(* Bounds of the model                                                     *)
(***************************************************************************)
MaxK == 3             \* direct extractDominantColors calls use k in 1..MaxK
MaxColors == 2        \* direct analyzeSkinTone calls take 0..MaxColors colours
MaxInvocations == 2   \* processImage invocations per component lifetime

(***************************************************************************)
(* Program constants                                                       *)
(***************************************************************************)
DefaultK == 14        \* extractDominantColors(faceImageData, 14)
Rounds == 10          \* iter < 10
Stride == 16          \* i += 16
DarkLevel == 7        \* skinLevel >= 7
PaletteCut == 4       \* palettes.slice(0, 4)
ExampleCut == 2       \* examples[skinToneType].slice(0, 2)

(***************************************************************************)
(* Arithmetic on exact rationals                                           *)
(***************************************************************************)
Abs(x) == IF x < 0 THEN -x ELSE x
Min2(a, b) == IF a <= b THEN a ELSE b
Max2(a, b) == IF a >= b THEN a ELSE b

RECURSIVE Gcd(_, _)
Gcd(a, b) == IF b = 0 THEN Abs(a) ELSE Gcd(b, a % b)

NaN == <<0, 0>>
IsNaN(x) == x[1] = 0 /\ x[2] = 0
Num(n) == <<n, 1>>

\* n / d in lowest terms, d > 0; anything divided by zero here is 0 / 0.
Rat(n, d) ==
    IF d = 0 THEN NaN
    ELSE LET g == Gcd(Abs(n), Abs(d))
             s == IF d < 0 THEN -1 ELSE 1
         IN  <<(s * n) \div g, (s * d) \div g>>

RatAdd(x, y) ==
    IF IsNaN(x) \/ IsNaN(y) THEN NaN
    ELSE LET g == Gcd(x[2], y[2])
         IN  Rat(x[1] * (y[2] \div g) + y[1] * (x[2] \div g), (x[2] \div g) * y[2])

\* x / n for an integer n >= 0 (sum / length); 0 / 0 is NaN.
RatDivInt(x, n) ==
    IF IsNaN(x) \/ n = 0 THEN NaN
    ELSE LET g == Gcd(Abs(x[1]), n)
         IN  Rat(x[1] \div g, x[2] * (n \div g))

\* Comparisons with an integer; every comparison with NaN is false.
RatGeq(x, c) == ~IsNaN(x) /\ x[1] >= c * x[2]
RatLeq(x, c) == ~IsNaN(x) /\ x[1] <= c * x[2]
\* x < y; y may be Infinity, <<1, 0>>.
RatLess(x, y) == ~IsNaN(x) /\ ~IsNaN(y) /\ x[1] * y[2] < y[1] * x[2]

\* Math.round(x) = floor(x + 1/2), for a rational x.
MathRound(x) == (2 * x[1] + x[2]) \div (2 * x[2])

(***************************************************************************)
(* Strings: toString(16), slice, parseInt(_, 16)                           *)
(***************************************************************************)
HexDigits == "0123456789abcdef"
HexDigitsUpper == "0123456789ABCDEF"
CharAt(s, i) == SubSeq(s, i, i)
\* the value of each hex digit, in either case
HexValues ==
    [c \in {CharAt(HexDigits, v) : v \in 1..16} \cup {CharAt(HexDigitsUpper, v) : v \in 1..16} |->
        CHOOSE v \in 0..15 : CharAt(HexDigits, v + 1) = c \/ CharAt(HexDigitsUpper, v + 1) = c]
IsHexChar(c) == c \in DOMAIN HexValues
HexVal(c) == HexValues[c]

\* Number.prototype.toString(16) of an integer.
RECURSIVE NatToString16(_)
NatToString16(n) ==
    IF n < 16 THEN CharAt(HexDigits, n + 1)
    ELSE NatToString16(n \div 16) \o CharAt(HexDigits, (n % 16) + 1)
ToString16(n) == IF n < 0 THEN "-" \o NatToString16(-n) ELSE NatToString16(n)

\* String.prototype.slice(from, to) with 0 <= from <= to (0-based, to excluded).
Slice(s, from, to) == SubSeq(s, from + 1, Min2(to, Len(s)))

\* parseInt(s, 16): an optional sign, then the longest run of hex digits;
\* NaN when there is none.
RECURSIVE ParseDigits(_, _, _, _)
ParseDigits(s, i, acc, seen) ==
    IF i <= Len(s) /\ IsHexChar(CharAt(s, i))
    THEN ParseDigits(s, i + 1, 16 * acc + HexVal(CharAt(s, i)), TRUE)
    ELSE IF seen THEN Num(acc) ELSE NaN
parseInt16(s) ==
    IF Len(s) > 0 /\ CharAt(s, 1) = "-"
    THEN LET v == ParseDigits(s, 2, 0, FALSE) IN IF IsNaN(v) THEN NaN ELSE Num(-v[1])
    ELSE IF Len(s) > 0 /\ CharAt(s, 1) = "+" THEN ParseDigits(s, 2, 0, FALSE)
    ELSE ParseDigits(s, 1, 0, FALSE)

(***************************************************************************)
(* rgbToHsl, rgbToHex                                                      *)
(***************************************************************************)
\* rgbToHsl without the "+ (g < b ? 6 : 0)" of the red case.
rgbToHslUnwrapped(r, g, b) ==
    IF IsNaN(r) \/ IsNaN(g) \/ IsNaN(b) THEN <<Num(0), NaN, NaN>>
    ELSE
    LET R == r[1]
        G == g[1]
        B == b[1]
        mx == Max2(R, Max2(G, B))
        mn == Min2(R, Min2(G, B))
        l == Rat(100 * (mx + mn), 510)
        d == mx - mn
    IN  IF mx = mn THEN <<Num(0), Num(0), l>>
        ELSE LET s == IF mx + mn > 255 THEN Rat(100 * d, 510 - mx - mn)
                                       ELSE Rat(100 * d, mx + mn)
                 h == IF mx = R THEN Rat(60 * (G - B), d)
                      ELSE IF mx = G THEN Rat(60 * ((B - R) + 2 * d), d)
                      ELSE Rat(60 * ((R - G) + 4 * d), d)
             IN  <<h, s, l>>

\* rgbToHsl without the max === min branch.
rgbToHslNoAchromatic(r, g, b) ==
    IF IsNaN(r) \/ IsNaN(g) \/ IsNaN(b) THEN <<Num(0), NaN, NaN>>
    ELSE
    LET R == r[1]
        G == g[1]
        B == b[1]
        mx == Max2(R, Max2(G, B))
        mn == Min2(R, Min2(G, B))
        l == Rat(100 * (mx + mn), 510)
        d == mx - mn
        s == IF mx + mn > 255 THEN Rat(100 * d, 510 - mx - mn)
                              ELSE Rat(100 * d, mx + mn)
        h == IF mx = R THEN Rat(60 * ((G - B) + (IF G < B THEN 6 * d ELSE 0)), d)
             ELSE IF mx = G THEN Rat(60 * ((B - R) + 2 * d), d)
             ELSE Rat(60 * ((R - G) + 4 * d), d)
    IN  <<h, s, l>>

\* rgbToHsl for channels that are integers or NaN (what parseInt returns).
\* With r, g, b the integer channels, max = mx / 255 and min = mn / 255:
\*   l = (max + min) / 2            = (mx + mn) / 510
\*   s = d / (2 - max - min)        = (mx - mn) / (510 - mx - mn)   if l > 0.5
\*       d / (max + min)            = (mx - mn) / (mx + mn)         otherwise
\*   h = ((g - b) / d + (g < b ? 6 : 0)) / 6   etc.
\* and the result is [h * 360, s * 100, l * 100].
\* A NaN channel makes max and min NaN: max === min is false, d, s and l are
\* NaN, no case of the switch matches and h stays 0.
rgbToHsl(r, g, b) ==
    IF IsNaN(r) \/ IsNaN(g) \/ IsNaN(b) THEN <<Num(0), NaN, NaN>>
    ELSE
    LET R == r[1]
        G == g[1]
        B == b[1]
        mx == Max2(R, Max2(G, B))
        mn == Min2(R, Min2(G, B))
        l == Rat(100 * (mx + mn), 510)
        d == mx - mn
    IN  IF mx = mn THEN <<Num(0), Num(0), l>>
        ELSE LET s == IF mx + mn > 255 THEN Rat(100 * d, 510 - mx - mn)
                                       ELSE Rat(100 * d, mx + mn)
                 h == IF mx = R THEN Rat(60 * ((G - B) + (IF G < B THEN 6 * d ELSE 0)), d)
                      ELSE IF mx = G THEN Rat(60 * ((B - R) + 2 * d), d)
                      ELSE Rat(60 * ((R - G) + 4 * d), d)
             IN  <<h, s, l>>

\* One channel of rgbToHex without the padding.
HexChannelUnpadded(x) == ToString16(MathRound(x))

\* One channel of rgbToHex: Math.round(x).toString(16), padded to two digits
\* when it has one.
HexChannel(x) ==
    LET hex == ToString16(MathRound(x))
    IN  IF Len(hex) = 1 THEN "0" \o hex ELSE hex

\* rgbToHex with the channels written in the order blue, green, red.
rgbToHexReversed(r, g, b) == "#" \o HexChannel(b) \o HexChannel(g) \o HexChannel(r)

rgbToHex(r, g, b) == "#" \o HexChannel(r) \o HexChannel(g) \o HexChannel(b)

(***************************************************************************)
(* analyzeSkinTone and the recommendation tables                           *)
(***************************************************************************)
SKIN_TONE_SCALE == <<
    [name |-> "Porcelain",     hex |-> "#f6ede4", number |-> 1],
    [name |-> "Ivory",         hex |-> "#f3e7db", number |-> 2],
    [name |-> "Light Beige",   hex |-> "#f7ead0", number |-> 3],
    [name |-> "Warm Beige",    hex |-> "#eadaba", number |-> 4],
    [name |-> "Golden Beige",  hex |-> "#d7bd96", number |-> 5],
    [name |-> "Tan",           hex |-> "#a07e56", number |-> 6],
    [name |-> "Medium Brown",  hex |-> "#825c43", number |-> 7],
    [name |-> "Deep Brown",    hex |-> "#604134", number |-> 8],
    [name |-> "Dark Espresso", hex |-> "#3a312a", number |-> 9],
    [name |-> "Ebony",         hex |-> "#292421", number |-> 10] >>

SkinToneTypes == {"warm", "cool", "neutral"}

\* dominantColors.map(hex => rgbToHsl(parseInt(hex.slice(1, 3), 16), ...))
HexToHsl(hex) ==
    rgbToHsl(parseInt16(Slice(hex, 1, 3)),
             parseInt16(Slice(hex, 3, 5)),
             parseInt16(Slice(hex, 5, 7)))

RECURSIVE MapHsl(_, _)
MapHsl(colors, n) ==
    IF n = 0 THEN <<>> ELSE Append(MapHsl(colors, n - 1), HexToHsl(colors[n]))
colorHSLs(colors) == MapHsl(colors, Len(colors))

\* hsls.reduce((sum, x) => sum + x[c], 0) over the first n elements
RECURSIVE SumComponent(_, _, _)
SumComponent(hsls, c, n) ==
    IF n = 0 THEN Num(0) ELSE RatAdd(SumComponent(hsls, c, n - 1), hsls[n][c])

\* The mean with hues taken on the circle: a hue of 180 or more counts as that
\* hue minus 360, and a negative mean is brought back into 0..360.
AverageCircular(hsls, c) ==
    LET RECURSIVE SumWrapped(_)
        SumWrapped(n) ==
            IF n = 0 THEN Num(0)
            ELSE RatAdd(SumWrapped(n - 1),
                        IF RatGeq(hsls[n][1], 180) THEN RatAdd(hsls[n][1], Num(-360))
                                                   ELSE hsls[n][1])
        wrapped == RatDivInt(SumWrapped(Len(hsls)), Len(hsls))
    IN  IF c = 1
        THEN IF RatLess(wrapped, Num(0)) THEN RatAdd(wrapped, Num(360)) ELSE wrapped
        ELSE RatDivInt(SumComponent(hsls, c, Len(hsls)), Len(hsls))

\* reduce(...) / colorHSLs.length
Average(hsls, c) == RatDivInt(SumComponent(hsls, c, Len(hsls)), Len(hsls))

avgLightnessOf(colors) == Average(colorHSLs(colors), 3)
avgHueOf(colors) == Average(colorHSLs(colors), 1)

\* The if / else-if chain that maps avgLightness to a row of SKIN_TONE_SCALE.
\* The level chain with > where the code has >=.
SkinToneLevelStrict(avgLightness) ==
    IF ~RatLeq(avgLightness, 85) /\ ~IsNaN(avgLightness) THEN SKIN_TONE_SCALE[1]
    ELSE IF ~RatLeq(avgLightness, 80) /\ ~IsNaN(avgLightness) THEN SKIN_TONE_SCALE[2]
    ELSE IF ~RatLeq(avgLightness, 75) /\ ~IsNaN(avgLightness) THEN SKIN_TONE_SCALE[3]
    ELSE IF ~RatLeq(avgLightness, 70) /\ ~IsNaN(avgLightness) THEN SKIN_TONE_SCALE[4]
    ELSE IF ~RatLeq(avgLightness, 65) /\ ~IsNaN(avgLightness) THEN SKIN_TONE_SCALE[5]
    ELSE IF ~RatLeq(avgLightness, 55) /\ ~IsNaN(avgLightness) THEN SKIN_TONE_SCALE[6]
    ELSE IF ~RatLeq(avgLightness, 45) /\ ~IsNaN(avgLightness) THEN SKIN_TONE_SCALE[7]
    ELSE IF ~RatLeq(avgLightness, 35) /\ ~IsNaN(avgLightness) THEN SKIN_TONE_SCALE[8]
    ELSE IF ~RatLeq(avgLightness, 25) /\ ~IsNaN(avgLightness) THEN SKIN_TONE_SCALE[9]
    ELSE SKIN_TONE_SCALE[10]

\* The level chain with the rows of levels 6 and 7 exchanged.
SkinToneLevelSwapped(avgLightness) ==
    IF RatGeq(avgLightness, 85) THEN SKIN_TONE_SCALE[1]
    ELSE IF RatGeq(avgLightness, 80) THEN SKIN_TONE_SCALE[2]
    ELSE IF RatGeq(avgLightness, 75) THEN SKIN_TONE_SCALE[3]
    ELSE IF RatGeq(avgLightness, 70) THEN SKIN_TONE_SCALE[4]
    ELSE IF RatGeq(avgLightness, 65) THEN SKIN_TONE_SCALE[5]
    ELSE IF RatGeq(avgLightness, 55) THEN SKIN_TONE_SCALE[7]
    ELSE IF RatGeq(avgLightness, 45) THEN SKIN_TONE_SCALE[6]
    ELSE IF RatGeq(avgLightness, 35) THEN SKIN_TONE_SCALE[8]
    ELSE IF RatGeq(avgLightness, 25) THEN SKIN_TONE_SCALE[9]
    ELSE SKIN_TONE_SCALE[10]

SkinToneLevelFor(avgLightness) ==
    IF RatGeq(avgLightness, 85) THEN SKIN_TONE_SCALE[1]
    ELSE IF RatGeq(avgLightness, 80) THEN SKIN_TONE_SCALE[2]
    ELSE IF RatGeq(avgLightness, 75) THEN SKIN_TONE_SCALE[3]
    ELSE IF RatGeq(avgLightness, 70) THEN SKIN_TONE_SCALE[4]
    ELSE IF RatGeq(avgLightness, 65) THEN SKIN_TONE_SCALE[5]
    ELSE IF RatGeq(avgLightness, 55) THEN SKIN_TONE_SCALE[6]
    ELSE IF RatGeq(avgLightness, 45) THEN SKIN_TONE_SCALE[7]
    ELSE IF RatGeq(avgLightness, 35) THEN SKIN_TONE_SCALE[8]
    ELSE IF RatGeq(avgLightness, 25) THEN SKIN_TONE_SCALE[9]
    ELSE SKIN_TONE_SCALE[10]

\* The undertone chain with the cool test placed before the warm test.
UndertoneCoolFirst(avgHue) ==
    IF RatGeq(avgHue, 300) \/ RatLeq(avgHue, 20)
    THEN [skinToneType |-> "cool", undertone |-> "Pink/Red"]
    ELSE IF RatGeq(avgHue, 20) /\ RatLeq(avgHue, 50)
    THEN [skinToneType |-> "warm", undertone |-> "Golden/Yellow"]
    ELSE [skinToneType |-> "neutral", undertone |-> "Balanced"]

\* The chain that maps avgHue to skinToneType and undertone.
UndertoneFor(avgHue) ==
    IF RatGeq(avgHue, 20) /\ RatLeq(avgHue, 50)
    THEN [skinToneType |-> "warm", undertone |-> "Golden/Yellow"]
    ELSE IF RatGeq(avgHue, 300) \/ RatLeq(avgHue, 20)
    THEN [skinToneType |-> "cool", undertone |-> "Pink/Red"]
    ELSE [skinToneType |-> "neutral", undertone |-> "Balanced"]

generateRecommendations(skinToneType) ==
    LET recommendations == [
          warm |-> [
            clothing  |-> <<"#8B4513", "#CD853F", "#DEB887", "#F4A460", "#D2691E", "#FF8C00">>,
            makeup    |-> <<"#CD853F", "#DEB887", "#F4A460", "#DDBF94">>,
            lipColors |-> <<"#CD5C5C", "#E9967A", "#FA8072", "#FF6347">>,
            eyeshadow |-> <<"#8B4513", "#CD853F", "#DEB887", "#D2691E">> ],
          cool |-> [
            clothing  |-> <<"#4682B4", "#6495ED", "#87CEEB", "#B0C4DE", "#778899", "#2F4F4F">>,
            makeup    |-> <<"#F8F8FF", "#E6E6FA", "#D8BFD8", "#DDA0DD">>,
            lipColors |-> <<"#DC143C", "#B22222", "#8B0000", "#FF1493">>,
            eyeshadow |-> <<"#4682B4", "#6495ED", "#9370DB", "#8A2BE2">> ],
          neutral |-> [
            clothing  |-> <<"#696969", "#708090", "#778899", "#2F4F4F", "#556B2F", "#8B4513">>,
            makeup    |-> <<"#F5F5DC", "#FFF8DC", "#FAEBD7", "#F0E68C">>,
            lipColors |-> <<"#CD5C5C", "#BC8F8F", "#F08080", "#E9967A">>,
            eyeshadow |-> <<"#CD853F", "#BC8F8F", "#D2B48C", "#DEB887">> ] ]
    IN  recommendations[skinToneType]

\* The literal built at each call of generateOutfitPalettes.
basePalettes == [
    warm |-> <<
      [name |-> "Earth Tones",   colors |-> <<"#8B4513", "#D2691E", "#F4A460", "#DEB887", "#FFFFFF">>],
      [name |-> "Autumn Spice",  colors |-> <<"#B22222", "#FF8C00", "#DAA520", "#CD853F", "#F5F5DC">>],
      [name |-> "Golden Hour",   colors |-> <<"#FFD700", "#FF6347", "#CD853F", "#F4A460", "#FFFAF0">>],
      [name |-> "Desert Sunset", colors |-> <<"#FF4500", "#FF8C00", "#DEB887", "#F5DEB3", "#FFFFFF">>] >>,
    cool |-> <<
      [name |-> "Ocean Blues",    colors |-> <<"#000080", "#4682B4", "#87CEEB", "#E0F6FF", "#FFFFFF">>],
      [name |-> "Berry Elegance", colors |-> <<"#8B008B", "#DC143C", "#FFB6C1", "#F8F8FF", "#000000">>],
      [name |-> "Winter Frost",   colors |-> <<"#2F4F4F", "#708090", "#B0C4DE", "#F0F8FF", "#FFFFFF">>],
      [name |-> "Jewel Tones",    colors |-> <<"#4B0082", "#008B8B", "#9370DB", "#E6E6FA", "#FFFFFF">>] >>,
    neutral |-> <<
      [name |-> "Classic Neutrals",  colors |-> <<"#000000", "#696969", "#D3D3D3", "#F5F5F5", "#FFFFFF">>],
      [name |-> "Sage & Stone",      colors |-> <<"#556B2F", "#808080", "#D2B48C", "#F5F5DC", "#FFFFFF">>],
      [name |-> "Modern Minimalist", colors |-> <<"#2F4F4F", "#778899", "#B0C4DE", "#F8F8FF", "#FFFFFF">>],
      [name |-> "Warm Greys",        colors |-> <<"#8B4513", "#696969", "#BC8F8F", "#F5F5DC", "#FFFFFF">>] >> ]

\* slice(0, n - 1) where the code has slice(0, n).
SliceToShort(seq, n) == SubSeq(seq, 1, Min2(n - 1, Len(seq)))

\* Array.prototype.slice(0, n)
SliceTo(seq, n) == SubSeq(seq, 1, Min2(n, Len(seq)))

generateOutfitPalettes(skinToneType, skinLevel) ==
    LET palettes ==
          IF skinLevel >= DarkLevel /\ skinToneType = "warm"
          THEN Append(basePalettes[skinToneType],
                 [name |-> "Rich Jewels",
                  colors |-> <<"#800080", "#FF6347", "#DAA520", "#F4A460", "#FFFAF0">>])
          ELSE IF skinLevel >= DarkLevel /\ skinToneType = "cool"
          THEN Append(basePalettes[skinToneType],
                 [name |-> "Royal Blues",
                  colors |-> <<"#000080", "#8B008B", "#DC143C", "#FFB6C1", "#FFFFFF">>])
          ELSE basePalettes[skinToneType]
    IN  SliceTo(palettes, PaletteCut)

\* The literal built at each call of generateOutfitExamples.
examples == [
    warm |-> <<"Terracotta blazer with cream trousers and gold accessories",
               "Olive green sweater with dark denim jeans and brown leather boots">>,
    cool |-> <<"Navy blue blouse with grey tailored pants and silver jewelry",
               "Emerald green dress with black heels and pearl accessories">>,
    neutral |-> <<"Charcoal grey suit with white shirt and black leather shoes",
                  "Sage green cardigan with beige chinos and tan loafers">> ]

\* generateOutfitExamples ending in slice(2) where the code has slice(0, 2).
generateOutfitExamplesTail(skinToneType, skinLevel) ==
    LET pushed ==
          IF skinLevel >= DarkLevel /\ skinToneType = "warm"
          THEN Append(examples[skinToneType],
                 "Bold orange top with dark chocolate brown pants and gold statement jewelry")
          ELSE IF skinLevel >= DarkLevel /\ skinToneType = "cool"
          THEN Append(examples[skinToneType],
                 "Rich purple blouse with black trousers and silver metallic accessories")
          ELSE examples[skinToneType]
    IN  SubSeq(pushed, ExampleCut + 1, Len(pushed))

generateOutfitExamples(skinToneType, skinLevel) ==
    LET pushed ==
          IF skinLevel >= DarkLevel /\ skinToneType = "warm"
          THEN Append(examples[skinToneType],
                 "Bold orange top with dark chocolate brown pants and gold statement jewelry")
          ELSE IF skinLevel >= DarkLevel /\ skinToneType = "cool"
          THEN Append(examples[skinToneType],
                 "Rich purple blouse with black trousers and silver metallic accessories")
          ELSE examples[skinToneType]
    IN  SliceTo(pushed, ExampleCut)

\* analyzeSkinTone with a clothing palette that grows for the darker levels,
\* as the outfit palettes are meant to.
analyzeSkinToneByLevel(colors) ==
    LET hsls == colorHSLs(colors)
        skinToneLevel == SkinToneLevelFor(Average(hsls, 3))
        tone == UndertoneFor(Average(hsls, 1))
        recommendations == generateRecommendations(tone.skinToneType)
    IN  [dominantColors  |-> colors,
         skinToneType    |-> tone.skinToneType,
         undertone       |-> tone.undertone,
         skinToneLevel   |-> skinToneLevel,
         outfitPalettes  |-> generateOutfitPalettes(tone.skinToneType, skinToneLevel.number),
         outfitExamples  |-> generateOutfitExamples(tone.skinToneType, skinToneLevel.number),
         recommendations |-> IF skinToneLevel.number >= DarkLevel
                             THEN [recommendations EXCEPT !.clothing = Append(@, "#800080")]
                             ELSE recommendations]

analyzeSkinTone(colors) ==
    LET hsls == colorHSLs(colors)
        skinToneLevel == SkinToneLevelFor(Average(hsls, 3))
        tone == UndertoneFor(Average(hsls, 1))
    IN  [dominantColors  |-> colors,
         skinToneType    |-> tone.skinToneType,
         undertone       |-> tone.undertone,
         skinToneLevel   |-> skinToneLevel,
         outfitPalettes  |-> generateOutfitPalettes(tone.skinToneType, skinToneLevel.number),
         outfitExamples  |-> generateOutfitExamples(tone.skinToneType, skinToneLevel.number),
         recommendations |-> generateRecommendations(tone.skinToneType)]

(***************************************************************************)
(* Values before anything has run                                          *)
(***************************************************************************)
NoCall == [pc |-> "idle", caller |-> 0, imageData |-> <<>>, k |-> 0]

NoImage == <<>>     \* '' as the value of uploadedImage

ComponentMounted ==
    /\ uploadedImage = NoImage
    /\ isAnalyzing = FALSE
    /\ analysis = NULL
    /\ error = ""
    /\ procs = <<>>
    /\ fetches = <<>>

ExtractIdle ==
    /\ call = NoCall
    /\ pixels = <<>>
    /\ centroids = <<>>
    /\ iter = 0
    /\ clusters = <<>>
    /\ dominantColors = <<>>

(***************************************************************************)
(* Direct calls of analyzeSkinTone: two calls on colour sequences drawn    *)
(* from TestColors                                                         *)
(***************************************************************************)
\* hue 22.5 / l 62.7, hue 20 / l 49.0, hue 30 / l 80, hue 350 / l 21.6,
\* hue 10 / l 21.6, hue 210 / l 78.4, hue 120 / l 47.1, hue 12 / l 90.2
TestColors == <<"#c89678", "#c86432", "#e6ccb2", "#46282d",
                "#462d28", "#b4c8dc", "#648c64", "#f0e0dc">>

\* The sum of a sequence does not depend on its order, so one order per
\* multiset of colours is drawn.
ColorSeqs ==
    UNION {{[i \in 1..n |-> TestColors[s[i]]] :
              s \in {t \in [1..n -> 1..Len(TestColors)] :
                       \A i \in 1..n, j \in 1..n : i < j => t[i] <= t[j]}} :
           n \in 0..MaxColors}

InitAnalyze ==
    /\ ComponentMounted
    /\ ExtractIdle
    /\ inputs \in ColorSeqs \X ColorSeqs
    /\ results = <<>>

\* A call whose phrase list is one array shared by all calls: once a call has
\* run, the next returns the phrases the array then holds.
CallAnalyzeShared ==
    /\ Len(results) < Len(inputs)
    /\ LET own == analyzeSkinTone(inputs[Len(results) + 1])
       IN  results' = Append(results,
                        IF results = <<>> THEN own
                        ELSE [own EXCEPT !.outfitExamples = results[Len(results)].outfitExamples])
    /\ UNCHANGED <<inputs, componentVars, extractVars>>

\* The next call: analyzeSkinTone(inputs[n]) returns.
CallAnalyze ==
    /\ Len(results) < Len(inputs)
    /\ results' = Append(results, analyzeSkinTone(inputs[Len(results) + 1]))
    /\ UNCHANGED <<inputs, componentVars, extractVars>>

NextAnalyze == CallAnalyze

SpecAnalyze == InitAnalyze /\ [][NextAnalyze]_vars

(***************************************************************************)
(* extractDominantColors                                                   *)
(***************************************************************************)
\* A function on 1..n as the tuple it is, and a function as its table: each
\* is evaluated once, element by element.
AsTuple(f) == f \o <<>>
AsFunction(f) == f @@ <<>>

\* imageData.data[i] for a 0-based i; undefined (here -1, which fails every
\* test of the filter, as undefined does) past the end.
DataAt(data, i) == IF i + 1 <= Len(data) THEN data[i + 1] ELSE -1

\* The offsets the sampling loop visits: i = 0; i < data.length; i += 16.
SampleOffsets(data) ==
    AsTuple([j \in 1..((Len(data) + Stride - 1) \div Stride) |-> Stride * (j - 1)])

\* The filter with >= and <= where the code has > and <.
RetainedInclusive(data, i) ==
    LET r == DataAt(data, i)
        g == DataAt(data, i + 1)
        b == DataAt(data, i + 2)
        alpha == DataAt(data, i + 3)
    IN  alpha >= 200 /\ r >= 30 /\ g >= 30 /\ b >= 30 /\ r <= 250 /\ g <= 250 /\ b <= 250

\* The filter with the alpha test alone.
RetainedAlphaOnly(data, i) == DataAt(data, i + 3) > 200

\* if (alpha > 200 && r > 30 && g > 30 && b > 30 && r < 250 && g < 250 && b < 250)
Retained(data, i) ==
    LET r == DataAt(data, i)
        g == DataAt(data, i + 1)
        b == DataAt(data, i + 2)
        alpha == DataAt(data, i + 3)
    IN  alpha > 200 /\ r > 30 /\ g > 30 /\ b > 30 /\ r < 250 /\ g < 250 /\ b < 250

\* The sampling loop: pixels.push([r, g, b]) for each retained offset, in order.
SamplePixels(data) ==
    LET kept == SelectSeq(SampleOffsets(data), LAMBDA i : Retained(data, i))
    IN  AsTuple([j \in 1..Len(kept) |->
            <<DataAt(data, kept[j]), DataAt(data, kept[j] + 1), DataAt(data, kept[j] + 2)>>])

\* [...randomPixel]: a centroid is a triple of numbers
\* A centroid [x, y, z] is held as <<r, g, b, n>> with x = r / n, y = g / n and
\* z = b / n, in lowest common terms: the three channels of a mean share the
\* divisor cluster.length.
MakeCentroid(r, g, b, n) ==
    LET d == Gcd(Gcd(Gcd(r, g), b), n)
    IN  <<r \div d, g \div d, b \div d, n \div d>>

\* [...randomPixel]
CentroidOf(pixel) == <<pixel[1], pixel[2], pixel[3], 1>>

\* channel c of a centroid, as a number
Channel(centroid, c) == Rat(centroid[c], centroid[4])

Infinity == <<1, 0>>

\* The square of the distance the code computes, as a fraction: each
\* pixel[c] - centroid[c] is taken times the divisor of the centroid.
\* Math.sqrt is increasing, so distance < minDistance is decided on the squares.
Distance2(pixel, centroid) ==
    LET dr == pixel[1] * centroid[4] - centroid[1]
        dg == pixel[2] * centroid[4] - centroid[2]
        db == pixel[3] * centroid[4] - centroid[3]
    IN  <<dr * dr + dg * dg + db * db, centroid[4] * centroid[4]>>

\* The scan with <= where the code has <: of several closest centroids the
\* last one wins.
RECURSIVE ClosestScanLast(_, _, _, _, _)
ClosestScanLast(pixel, cents, i, minDistance, closestCluster) ==
    IF i > Len(cents) THEN closestCluster
    ELSE LET distance == Distance2(pixel, cents[i])
         IN  IF ~RatLess(minDistance, distance)
             THEN ClosestScanLast(pixel, cents, i + 1, distance, i)
             ELSE ClosestScanLast(pixel, cents, i + 1, minDistance, closestCluster)

\* centroids.forEach((centroid, index) => { if (distance < minDistance) ... })
\* from index i on; indices are 1-based here.
RECURSIVE ClosestScan(_, _, _, _, _)
ClosestScan(pixel, cents, i, minDistance, closestCluster) ==
    IF i > Len(cents) THEN closestCluster
    ELSE LET distance == Distance2(pixel, cents[i])
         IN  IF RatLess(distance, minDistance)
             THEN ClosestScan(pixel, cents, i + 1, distance, i)
             ELSE ClosestScan(pixel, cents, i + 1, minDistance, closestCluster)

\* let minDistance = Infinity; let closestCluster = 0;
ClosestCluster(pixel, cents) == ClosestScan(pixel, cents, 1, Infinity, 1)

\* The assignment pass with a pixel pushed to every centroid at the least
\* distance rather than to the first of them.
AssignClustersAllNearest(pxs, cents) ==
    AsTuple([c \in 1..Len(cents) |->
               SelectSeq(pxs, LAMBDA pixel :
                   \A d \in 1..Len(cents) :
                       ~RatLess(Distance2(pixel, cents[d]), Distance2(pixel, cents[c])))])

\* The assignment pass: clusters[closestCluster].push(pixel) for each pixel
\* closestCluster depends on the pixel through its value alone, so it is
\* computed once for each value that occurs in pixels.
AssignClusters(pxs, cents) ==
    LET closestCluster ==
          AsFunction([pixel \in {pxs[j] : j \in 1..Len(pxs)} |-> ClosestCluster(pixel, cents)])
    IN  AsTuple([c \in 1..Len(cents) |->
                   SelectSeq(pxs, LAMBDA pixel : closestCluster[pixel] = c)])

\* cluster.reduce((sum, p) => sum + p[c], 0) over the first n elements
RECURSIVE ChannelSum(_, _, _)
ChannelSum(cluster, c, n) ==
    IF n = 0 THEN 0 ELSE ChannelSum(cluster, c, n - 1) + cluster[n][c]

\* The update pass dividing each sum by one more than the cluster's length.
UpdateCentroidOffByOne(centroid, cluster) ==
    IF Len(cluster) > 0
    THEN MakeCentroid(ChannelSum(cluster, 1, Len(cluster)),
                      ChannelSum(cluster, 2, Len(cluster)),
                      ChannelSum(cluster, 3, Len(cluster)),
                      Len(cluster) + 1)
    ELSE centroid

\* The update pass with a centroid that lost all its samples sent back to black.
UpdateCentroidReseeding(centroid, cluster) ==
    IF Len(cluster) > 0
    THEN MakeCentroid(ChannelSum(cluster, 1, Len(cluster)),
                      ChannelSum(cluster, 2, Len(cluster)),
                      ChannelSum(cluster, 3, Len(cluster)),
                      Len(cluster))
    ELSE <<0, 0, 0, 1>>

\* The update pass: a non-empty cluster moves its centroid to the mean.
UpdateCentroid(centroid, cluster) ==
    IF Len(cluster) > 0
    THEN MakeCentroid(ChannelSum(cluster, 1, Len(cluster)),
                      ChannelSum(cluster, 2, Len(cluster)),
                      ChannelSum(cluster, 3, Len(cluster)),
                      Len(cluster))
    ELSE centroid

UpdateCentroids(cents, cls) ==
    AsTuple([c \in 1..Len(cents) |-> UpdateCentroid(cents[c], cls[c])])

\* The rendering with repeated centroids dropped.
RenderDistinct(cents) ==
    LET kept == SelectSeq(AsTuple([c \in 1..Len(cents) |-> c]),
                          LAMBDA c : \A d \in 1..(c - 1) : cents[d] # cents[c])
    IN  AsTuple([j \in 1..Len(kept) |->
            rgbToHex(Channel(cents[kept[j]], 1), Channel(cents[kept[j]], 2),
                     Channel(cents[kept[j]], 3))])

\* centroids.map(([r, g, b]) => rgbToHex(r, g, b))
RenderCentroids(cents) ==
    AsTuple([c \in 1..Len(cents) |->
        rgbToHex(Channel(cents[c], 1), Channel(cents[c], 2), Channel(cents[c], 3))])

\* ---- the call, step by step ----

\* The start of a call with centroids an array that outlives the call.
SampleKeepingCentroids ==
    /\ call.pc = "start"
    /\ pixels' = SamplePixels(call.imageData)
    /\ IF Len(pixels') = 0
       THEN /\ dominantColors' = <<>>
            /\ call' = [call EXCEPT !.pc = "returned"]
       ELSE /\ call' = [call EXCEPT !.pc = IF call.k > 0 THEN "init" ELSE "iterate"]
            /\ UNCHANGED dominantColors
    /\ iter' = 0
    /\ clusters' = <<>>
    /\ UNCHANGED <<centroids, componentVars, analyzeVars>>

\* Lines 62-80: the sampling loop and the early return.
Sample ==
    /\ call.pc = "start"
    /\ pixels' = SamplePixels(call.imageData)
    /\ IF Len(pixels') = 0
       THEN /\ dominantColors' = <<>>
            /\ call' = [call EXCEPT !.pc = "returned"]
       ELSE /\ call' = [call EXCEPT !.pc = IF call.k > 0 THEN "init" ELSE "iterate"]
            /\ UNCHANGED dominantColors
    /\ centroids' = <<>>
    /\ iter' = 0
    /\ clusters' = <<>>
    /\ UNCHANGED <<componentVars, analyzeVars>>

\* Lines 86-89: one pass of the initialisation loop.
\* Math.floor(Math.random() * pixels.length) is any index of pixels; the pass
\* depends on the index through pixels[index] alone.
InitCentroid ==
    /\ call.pc = "init"
    /\ \E randomPixel \in {pixels[idx] : idx \in 1..Len(pixels)} :
          centroids' = Append(centroids, CentroidOf(randomPixel))
    /\ call' = [call EXCEPT !.pc = IF Len(centroids) + 1 < call.k THEN "init" ELSE "iterate"]
    /\ UNCHANGED <<pixels, iter, clusters, dominantColors, componentVars, analyzeVars>>

\* Lines 92-125: one pass of the k-means loop.
Round ==
    /\ call.pc = "iterate"
    /\ iter < Rounds
    /\ clusters' = AssignClusters(pixels, centroids)
    /\ centroids' = UpdateCentroids(centroids, clusters')
    /\ iter' = iter + 1
    /\ UNCHANGED <<call, pixels, dominantColors, componentVars, analyzeVars>>

\* A return that also leaves the loop once a round would move no centroid.
ReturnWhenConverged ==
    /\ call.pc = "iterate"
    /\ \/ ~(iter < Rounds)
       \/ iter > 0 /\ UpdateCentroids(centroids, AssignClusters(pixels, centroids)) = centroids
    /\ dominantColors' = RenderCentroids(centroids)
    /\ call' = [call EXCEPT !.pc = "returned"]
    /\ UNCHANGED <<pixels, centroids, iter, clusters, componentVars, analyzeVars>>

\* Line 127: the loop has ended; the centroids are rendered and returned.
Return ==
    /\ call.pc = "iterate"
    /\ ~(iter < Rounds)
    /\ dominantColors' = RenderCentroids(centroids)
    /\ call' = [call EXCEPT !.pc = "returned"]
    /\ UNCHANGED <<pixels, centroids, iter, clusters, componentVars, analyzeVars>>

(***************************************************************************)
(* Images                                                                  *)
(***************************************************************************)
Uniform(n, px) == AsTuple([i \in 1..(4 * n) |-> px[((i - 1) % 4) + 1]])

\* Three unsampled pixels follow each sampled one.
Filler == <<90, 90, 90, 255>>
Sampled(px) == px \o Filler \o Filler \o Filler

\* "a buffer filled entirely with (0,0,0,255)", 4 x 2
BlackImage == Uniform(8, <<0, 0, 0, 255>>)
\* "a synthetic 10x10 RGBA buffer filled uniformly with (200,150,120,255)"
SkinImage == Uniform(100, <<200, 150, 120, 255>>)
\* 24 x 1: three retained samples among samples the filter drops
MixedImage ==
    Sampled(<<200, 150, 120, 255>>) \o Sampled(<<100, 60, 50, 200>>) \o
    Sampled(<<100, 60, 50, 255>>)   \o Sampled(<<250, 200, 200, 255>>) \o
    Sampled(<<211, 161, 130, 201>>) \o Sampled(<<120, 80, 30, 255>>)
\* 16 x 1: two light and two dark samples
FourImage ==
    Sampled(<<200, 150, 120, 255>>) \o Sampled(<<100, 60, 50, 255>>) \o
    Sampled(<<211, 161, 130, 255>>) \o Sampled(<<110, 70, 61, 255>>)
\* only transparent and near-white samples, 8 x 1
WashedImage == Sampled(<<200, 150, 120, 200>>) \o Sampled(<<250, 250, 250, 255>>)

TestImages == {BlackImage, WashedImage, MixedImage, FourImage, SkinImage}

(***************************************************************************)
(* Direct calls of extractDominantColors(imageData, k)                     *)
(***************************************************************************)
InitExtract ==
    /\ ComponentMounted
    /\ inputs = <<>>
    /\ results = <<>>
    /\ \E img \in TestImages, k \in (1..MaxK) \cup {DefaultK} :
          /\ (k = DefaultK => img = SkinImage)
          /\ call = [pc |-> "start", caller |-> 0, imageData |-> img, k |-> k]
    /\ pixels = <<>>
    /\ centroids = <<>>
    /\ iter = 0
    /\ clusters = <<>>
    /\ dominantColors = <<>>

NextExtract == Sample \/ InitCentroid \/ Round \/ Return

SpecExtract == InitExtract /\ [][NextExtract]_vars

(***************************************************************************)
(* A call of extractDominantColors with its first settled round noted      *)
(***************************************************************************)
\* One pass of the k-means loop whose last pass sends the centroids of empty
\* clusters back to black.
RoundNotedReseedingLast ==
    /\ call.pc = "iterate"
    /\ iter < Rounds
    /\ clusters' = AssignClusters(pixels, centroids)
    /\ centroids' =
          IF iter + 1 = Rounds
          THEN AsTuple([c \in 1..Len(centroids) |->
                          UpdateCentroidReseeding(centroids[c], clusters'[c])])
          ELSE UpdateCentroids(centroids, clusters')
    /\ iter' = iter + 1
    /\ results' = IF results = <<>> /\ centroids' = centroids THEN <<centroids>> ELSE results
    /\ UNCHANGED <<call, pixels, dominantColors, componentVars, inputs>>

\* Lines 92-125: one pass of the k-means loop, as Round.  results keeps the
\* centroids of the first pass that moved none of them.
RoundNoted ==
    /\ call.pc = "iterate"
    /\ iter < Rounds
    /\ clusters' = AssignClusters(pixels, centroids)
    /\ centroids' = UpdateCentroids(centroids, clusters')
    /\ iter' = iter + 1
    /\ results' = IF results = <<>> /\ centroids' = centroids THEN <<centroids>> ELSE results
    /\ UNCHANGED <<call, pixels, dominantColors, componentVars, inputs>>

NextRounds == Sample \/ InitCentroid \/ RoundNoted \/ Return

SpecRounds == InitExtract /\ [][NextRounds]_vars

(***************************************************************************)
(* The SkinToneAnalyzer component                                          *)
(***************************************************************************)
\* The files a user can pick.  A file stands for the face region that
\* detectFaceRegion crops from it; "corrupt" is a file the browser cannot
\* decode, so that img.onerror fires.
Files == {"black", "skin", "corrupt"}

FaceRegion(file) ==
    CASE file = "black" -> BlackImage
      [] file = "skin"  -> SkinImage
      [] OTHER          -> <<>>

\* URL.createObjectURL(file): a fresh URL at every call
ObjectURL(file, id) == <<file, id>>

NoCanvasContext == "Could not get canvas context"
NoFace == "Upload failed. Please provide an image with a clear human face."
NoFaceRegion == "Could not detect face region in the image"
NoColors == "Could not extract skin tone colors from the image"
FailedToAnalyze == "Failed to analyze image"
FailedToRetry == "Failed to retry analysis"

\* No synchronous code is running: handlers and continuations run one at a
\* time, each to its next await.
SyncIdle == call.pc = "idle"

Capacity == Len(procs) + Len(fetches) < MaxInvocations

RemoveAt(seq, j) == SubSeq(seq, 1, j - 1) \o SubSeq(seq, j + 1, Len(seq))

\* processImage up to its first await, without the setError('') of line 22.
StartProcessKeepingError(file, ctxOk) ==
    /\ analysis' = NULL
    /\ IF ctxOk
       THEN /\ isAnalyzing' = TRUE
            /\ UNCHANGED error
            /\ uploadedImage' = ObjectURL(file, Len(procs) + 1)
            /\ procs' = Append(procs, [file |-> file, pc |-> "loading", outcome |-> "",
                                       dominantColors |-> NULL, skinAnalysis |-> NULL])
       ELSE /\ isAnalyzing' = FALSE
            /\ error' = NoCanvasContext
            /\ UNCHANGED uploadedImage
            /\ procs' = Append(procs, [file |-> file, pc |-> "done", outcome |-> NoCanvasContext,
                                       dominantColors |-> NULL, skinAnalysis |-> NULL])

\* processImage(file) up to its first await (lines 21-43).  ctxOk is whether
\* canvas.getContext('2d') returned a context.
StartProcess(file, ctxOk) ==
    /\ analysis' = NULL
    /\ IF ctxOk
       THEN /\ isAnalyzing' = TRUE
            /\ error' = ""
            /\ uploadedImage' = ObjectURL(file, Len(procs) + 1)
            /\ procs' = Append(procs, [file |-> file, pc |-> "loading", outcome |-> "",
                                       dominantColors |-> NULL, skinAnalysis |-> NULL])
       ELSE /\ isAnalyzing' = FALSE
            /\ error' = NoCanvasContext
            /\ UNCHANGED uploadedImage
            /\ procs' = Append(procs, [file |-> file, pc |-> "done", outcome |-> NoCanvasContext,
                                       dominantColors |-> NULL, skinAnalysis |-> NULL])

\* The catch and finally blocks (lines 75-80) for a thrown message.
Fail(i, message) ==
    /\ error' = message
    /\ isAnalyzing' = FALSE
    /\ procs' = [procs EXCEPT ![i].pc = "done", ![i].outcome = message]
    /\ UNCHANGED <<uploadedImage, analysis>>

\* UploadZone offers its file input and drop target only while no image is shown.
handleImageUpload(file, ctxOk) ==
    /\ SyncIdle
    /\ Capacity
    /\ uploadedImage = NoImage
    /\ StartProcess(file, ctxOk)
    /\ UNCHANGED <<fetches, extractVars, analyzeVars>>

\* img.onload: the promise of line 39 resolves; the image is drawn and
\* detectFaceInImage(img) is awaited.
ImageLoaded(i) ==
    /\ SyncIdle
    /\ procs[i].pc = "loading"
    /\ procs[i].file # "corrupt"
    /\ procs' = [procs EXCEPT ![i].pc = "detecting"]
    /\ UNCHANGED <<uploadedImage, isAnalyzing, analysis, error, fetches,
                   extractVars, analyzeVars>>

\* img.onerror: the promise rejects with an Event, which is no Error.
ImageFailed(i) ==
    /\ SyncIdle
    /\ procs[i].pc = "loading"
    /\ procs[i].file = "corrupt"
    /\ Fail(i, FailedToAnalyze)
    /\ UNCHANGED <<fetches, extractVars, analyzeVars>>

\* detectFaceInImage(img) resolves with faceDetected (lines 51-65): without a
\* face the invocation fails; with one, the face region is cropped and
\* extractDominantColors(faceImageData, 14) is entered.
FaceDetectResolved(i, faceDetected) ==
    /\ SyncIdle
    /\ procs[i].pc = "detecting"
    /\ IF faceDetected
       THEN /\ procs' = [procs EXCEPT ![i].pc = "extracting"]
            /\ call' = [pc |-> "start", caller |-> i,
                        imageData |-> FaceRegion(procs[i].file), k |-> DefaultK]
            /\ UNCHANGED <<uploadedImage, isAnalyzing, analysis, error>>
       ELSE /\ Fail(i, NoFace)
            /\ UNCHANGED call
    /\ UNCHANGED <<fetches, pixels, centroids, iter, clusters, dominantColors, analyzeVars>>

\* extractDominantColors has returned to processImage (lines 65-80).
FinishProcess(i) ==
    /\ call.pc = "returned"
    /\ call.caller = i
    /\ IF Len(dominantColors) = 0
       THEN /\ error' = NoColors
            /\ isAnalyzing' = FALSE
            /\ procs' = [procs EXCEPT ![i].pc = "done", ![i].outcome = NoColors,
                                      ![i].dominantColors = Some(dominantColors)]
            /\ UNCHANGED <<uploadedImage, analysis>>
       ELSE /\ analysis' = Some(analyzeSkinTone(dominantColors))
            /\ isAnalyzing' = FALSE
            /\ procs' = [procs EXCEPT ![i].pc = "done", ![i].outcome = "analysis",
                                      ![i].dominantColors = Some(dominantColors),
                                      ![i].skinAnalysis = analysis']
            /\ UNCHANGED <<uploadedImage, error>>
    /\ call' = NoCall
    /\ UNCHANGED <<fetches, pixels, centroids, iter, clusters, dominantColors, analyzeVars>>

\* The remove button of UploadZone, shown while an image is shown.
handleRemoveImage ==
    /\ SyncIdle
    /\ uploadedImage # NoImage
    /\ uploadedImage' = NoImage
    /\ analysis' = NULL
    /\ error' = ""
    /\ UNCHANGED <<isAnalyzing, procs, fetches, extractVars, analyzeVars>>

\* The "Retry Analysis" button, rendered when error && uploadedImage.
handleRetry ==
    /\ SyncIdle
    /\ Capacity
    /\ error # ""
    /\ uploadedImage # NoImage
    /\ fetches' = Append(fetches, uploadedImage)
    /\ UNCHANGED <<uploadedImage, isAnalyzing, analysis, error, procs,
                   extractVars, analyzeVars>>

\* fetch(...).then(res => res.blob()).then(blob => processImage(new File(...)))
RetryResolved(j, ctxOk) ==
    /\ SyncIdle
    /\ j \in 1..Len(fetches)
    /\ StartProcess(fetches[j][1], ctxOk)
    /\ fetches' = RemoveAt(fetches, j)
    /\ UNCHANGED <<extractVars, analyzeVars>>

\* .catch(err => setError('Failed to retry analysis'))
RetryFailed(j) ==
    /\ SyncIdle
    /\ j \in 1..Len(fetches)
    /\ error' = FailedToRetry
    /\ fetches' = RemoveAt(fetches, j)
    /\ UNCHANGED <<uploadedImage, isAnalyzing, analysis, procs, extractVars, analyzeVars>>

Init ==
    /\ ComponentMounted
    /\ ExtractIdle
    /\ inputs = <<>>
    /\ results = <<>>

Next ==
    \/ \E file \in Files, ctxOk \in BOOLEAN : handleImageUpload(file, ctxOk)
    \/ \E i \in 1..Len(procs) : ImageLoaded(i)
    \/ \E i \in 1..Len(procs) : ImageFailed(i)
    \/ \E i \in 1..Len(procs), faceDetected \in BOOLEAN : FaceDetectResolved(i, faceDetected)
    \/ Sample
    \/ InitCentroid
    \/ Round
    \/ Return
    \/ \E i \in 1..Len(procs) : FinishProcess(i)
    \/ handleRemoveImage
    \/ handleRetry
    \/ \E j \in 1..Len(fetches), ctxOk \in BOOLEAN : RetryResolved(j, ctxOk)
    \/ \E j \in 1..Len(fetches) : RetryFailed(j)

Spec == Init /\ [][Next]_vars

\* The call is synchronous code: once started it runs on until it returns.
SpecExtractFair == SpecExtract /\ WF_vars(NextExtract)

(***************************************************************************)
(* Two calls of extractDominantColors(imageData, k) on one buffer          *)
(***************************************************************************)
\* The indices Math.floor(Math.random() * pixels.length) is drawn from here:
\* the first index of each distinct pixel value.  A pass of the
\* initialisation loop uses the index drawn in pixels[index] alone, so any
\* other index acts as the first index that holds the same value.
DrawnIndices(pxs) == {i \in 1..Len(pxs) : \A j \in 1..(i - 1) : pxs[j] # pxs[i]}

\* Lines 86-89, with the index drawn kept in inputs.
InitCentroidDrawn ==
    /\ call.pc = "init"
    /\ \E index \in DrawnIndices(pixels) :
          /\ centroids' = Append(centroids, CentroidOf(pixels[index]))
          /\ inputs' = Append(inputs, index)
    /\ call' = [call EXCEPT !.pc = IF Len(centroids) + 1 < call.k THEN "init" ELSE "iterate"]
    /\ UNCHANGED <<pixels, iter, clusters, dominantColors, results, componentVars>>

\* The first call has returned: its draws and its colours are kept, and the
\* same call is made again.
CallAgain ==
    /\ call.pc = "returned"
    /\ results = <<>>
    /\ results' = <<[draws |-> inputs, colors |-> dominantColors]>>
    /\ inputs' = <<>>
    /\ call' = [call EXCEPT !.pc = "start"]
    /\ UNCHANGED <<pixels, centroids, iter, clusters, dominantColors, componentVars>>

RepeatImages == {BlackImage, MixedImage, SkinImage}

InitRepeat ==
    /\ ComponentMounted
    /\ inputs = <<>>
    /\ results = <<>>
    /\ \E img \in RepeatImages, k \in 1..MaxK :
          call = [pc |-> "start", caller |-> 0, imageData |-> img, k |-> k]
    /\ pixels = <<>>
    /\ centroids = <<>>
    /\ iter = 0
    /\ clusters = <<>>
    /\ dominantColors = <<>>

NextRepeat == Sample \/ InitCentroidDrawn \/ Round \/ Return \/ CallAgain

SpecRepeat == InitRepeat /\ [][NextRepeat]_vars

(***************************************************************************)
(* Direct calls of rgbToHex and rgbToHsl on one colour                     *)
(***************************************************************************)
\* Channel values: bytes, and numbers that are not bytes (-1, 256, 300,
\* -0.4, 200.5, 255.5), all of them exact as doubles.
ByteValues == {0, 9, 15, 16, 127, 128, 200, 255}
ChannelValues ==
    {Num(v) : v \in ByteValues}
      \cup {Num(-1), Num(256), Num(300), Rat(-2, 5), Rat(401, 2), Rat(511, 2)}

IsByte(x) == x[2] = 1 /\ x[1] >= 0 /\ x[1] <= 255

Called(op) == \E n \in 1..Len(results) : results[n].op = op
ResultOf(op) == results[CHOOSE n \in 1..Len(results) : results[n].op = op].out

InitColor ==
    /\ ComponentMounted
    /\ ExtractIdle
    /\ inputs \in ChannelValues \X ChannelValues \X ChannelValues
    /\ results = <<>>

\* rgbToHex(r, g, b)
CallRgbToHex ==
    /\ ~Called("rgbToHex")
    /\ results' = Append(results,
                     [op |-> "rgbToHex", out |-> rgbToHex(inputs[1], inputs[2], inputs[3])])
    /\ UNCHANGED <<inputs, componentVars, extractVars>>

\* The callback of analyzeSkinTone's map, up to the call of rgbToHsl, applied
\* to the string rgbToHex returned.
ParseHex ==
    /\ Called("rgbToHex")
    /\ ~Called("parse")
    /\ LET hex == ResultOf("rgbToHex")
       IN  results' = Append(results,
                        [op |-> "parse", out |-> <<parseInt16(Slice(hex, 1, 3)),
                                                   parseInt16(Slice(hex, 3, 5)),
                                                   parseInt16(Slice(hex, 5, 7))>>])
    /\ UNCHANGED <<inputs, componentVars, extractVars>>

\* rgbToHsl(r, g, b), which the code calls with parsed bytes.
CallRgbToHsl ==
    /\ ~Called("rgbToHsl")
    /\ \A c \in 1..3 : IsByte(inputs[c])
    /\ results' = Append(results,
                     [op |-> "rgbToHsl", out |-> rgbToHsl(inputs[1], inputs[2], inputs[3])])
    /\ UNCHANGED <<inputs, componentVars, extractVars>>

NextColor == CallRgbToHex \/ ParseHex \/ CallRgbToHsl

SpecColor == InitColor /\ [][NextColor]_vars

(***************************************************************************)
(* Properties                                                              *)
(***************************************************************************)

\* C1: when no sampled pixel passes the alpha/brightness filter,
\* extractDominantColors returns the empty sequence, and the processImage
\* invocation that made the call ends with the "Could not extract skin tone
\* colors" error, having neither called analyzeSkinTone nor set an analysis.
C1_EmptyExtractionFails ==
    LET Passes(data, i) ==
            /\ i + 4 <= Len(data)
            /\ data[i + 4] > 200
            /\ \A c \in 1..3 : data[i + c] > 30 /\ data[i + c] < 250
        NonePasses(data) ==
            \A i \in 0..(Len(data) - 1) : i % 16 = 0 => ~Passes(data, i)
    IN  /\ (call.pc = "returned" /\ NonePasses(call.imageData)) => dominantColors = <<>>
        /\ \A i \in 1..Len(procs) :
              (procs[i].dominantColors # NULL /\ NonePasses(FaceRegion(procs[i].file)))
              => /\ procs[i].dominantColors = Some(<<>>)
                 /\ procs[i].pc = "done"
                 /\ procs[i].outcome = "Could not extract skin tone colors from the image"
                 /\ procs[i].skinAnalysis = NULL

\* An invocation on the all-black region has just ended: the error is shown
\* and there is no analysis.
C1_Witness ==
    \E i \in 1..Len(procs) :
        /\ procs[i].file = "black"
        /\ procs[i].dominantColors = Some(<<>>)
        /\ procs[i].outcome = NoColors
        /\ error = NoColors
        /\ analysis = NULL
        /\ ~isAnalyzing

\* C2: a call of extractDominantColors with k >= 1 whose filtered sample set
\* is non-empty returns exactly k colours, the i-th being the "#rrggbb"
\* rendering of the final centroid i, whatever the initial centroids and
\* whether or not a cluster was left without samples.
C2_ReturnsKColors ==
    (call.pc = "returned" /\ call.k >= 1 /\ Len(pixels) > 0)
    => /\ Len(dominantColors) = call.k
       /\ Len(centroids) = call.k
       /\ \A i \in 1..call.k :
             /\ Len(dominantColors[i]) = 7
             /\ CharAt(dominantColors[i], 1) = "#"
             /\ \A c \in 1..3 :
                   parseInt16(Slice(dominantColors[i], 2 * c - 1, 2 * c + 1))
                     = Num(MathRound(Channel(centroids[i], c)))

\* A call has returned k >= 2 colours although the last round left a cluster
\* without samples.
C2_Witness ==
    /\ call.pc = "returned"
    /\ call.k >= 2
    /\ Len(pixels) > 0
    /\ Len(dominantColors) = call.k
    /\ \E c \in 1..Len(clusters) : clusters[c] = <<>>
    /\ \E c \in 1..Len(clusters) : clusters[c] # <<>>

\* C3 (as stated): analyzeSkinTone called with an empty colour sequence
\* fails; no call with an empty sequence returns an analysis record.
C3_EmptyInputFails ==
    \A n \in 1..Len(results) : inputs[n] # <<>>

\* C4: for a non-empty colour sequence the returned level is the first
\* matching row of the ten-row table applied to the mean HSL lightness, and
\* its name and hex are those of SKIN_TONE_SCALE for that number.
C4_LightnessLevelTable ==
    LET table == << <<85, 1, "Porcelain">>,   <<80, 2, "Ivory">>,
                    <<75, 3, "Light Beige">>, <<70, 4, "Warm Beige">>,
                    <<65, 5, "Golden Beige">>, <<55, 6, "Tan">>,
                    <<45, 7, "Medium Brown">>, <<35, 8, "Deep Brown">>,
                    <<25, 9, "Dark Espresso">> >>
        Row(x) ==
            IF \E i \in 1..9 : RatGeq(x, table[i][1])
            THEN LET first == CHOOSE i \in 1..9 :
                                /\ RatGeq(x, table[i][1])
                                /\ \A j \in 1..(i - 1) : ~RatGeq(x, table[j][1])
                 IN  <<table[first][2], table[first][3]>>
            ELSE <<10, "Ebony">>
    IN  \A n \in 1..Len(results) :
            inputs[n] # <<>>
            => LET level == results[n].skinToneLevel
                   row == Row(avgLightnessOf(inputs[n]))
               IN  /\ level.number = row[1]
                   /\ level.name = row[2]
                   /\ \E e \in 1..Len(SKIN_TONE_SCALE) :
                         /\ SKIN_TONE_SCALE[e].number = level.number
                         /\ SKIN_TONE_SCALE[e].name = level.name
                         /\ SKIN_TONE_SCALE[e].hex = level.hex

\* A colour sequence whose mean lightness is exactly 80 was given level 2.
C4_Witness ==
    \E n \in 1..Len(results) :
        /\ inputs[n] # <<>>
        /\ avgLightnessOf(inputs[n]) = Num(80)
        /\ results[n].skinToneLevel.number = 2
        /\ results[n].skinToneLevel.name = "Ivory"

\* C5: for a non-empty colour sequence the undertone follows the mean hue,
\* warm tested first: 20 <= avgHue <= 50 is warm 'Golden/Yellow'; otherwise
\* avgHue >= 300 or avgHue <= 20 is cool 'Pink/Red'; otherwise neutral
\* 'Balanced'.  avgHue = 20 is warm, and the label goes with the category.
C5_UndertoneChain ==
    \A n \in 1..Len(results) :
        inputs[n] # <<>>
        => LET avgHue == avgHueOf(inputs[n])
               type == results[n].skinToneType
               warm == RatGeq(avgHue, 20) /\ RatLeq(avgHue, 50)
               cool == RatGeq(avgHue, 300) \/ RatLeq(avgHue, 20)
           IN  /\ warm => type = "warm"
               /\ (~warm /\ cool) => type = "cool"
               /\ (~warm /\ ~cool) => type = "neutral"
               /\ avgHue = Num(20) => type = "warm"
               /\ type = "warm" => results[n].undertone = "Golden/Yellow"
               /\ type = "cool" => results[n].undertone = "Pink/Red"
               /\ type = "neutral" => results[n].undertone = "Balanced"
               /\ type \in {"warm", "cool", "neutral"}

\* A colour sequence whose mean hue is exactly 20 was classified warm.
C5_Witness ==
    \E n \in 1..Len(results) :
        /\ inputs[n] # <<>>
        /\ avgHueOf(inputs[n]) = Num(20)
        /\ results[n].skinToneType = "warm"
        /\ results[n].undertone = "Golden/Yellow"

\* C6 (amended): the 10x10 RGBA buffer filled with (200,150,120,255),
\* analysed with k = 14, passes the sampling filter and yields level 6 'Tan'
\* (its lightness is 3200/51, below 65), undertone warm 'Golden/Yellow', and
\* the non-empty clothing and makeup palettes of the warm entry.
C6_UniformSkinBufferIsTan ==
    /\ Len(FaceRegion("skin")) = 4 * 10 * 10
    /\ \A j \in 1..Len(FaceRegion("skin")) :
          FaceRegion("skin")[j] = <<200, 150, 120, 255>>[((j - 1) % 4) + 1]
    /\ \A i \in 1..Len(procs) :
          procs[i].file = "skin"
          => /\ (procs[i].pc = "extracting" /\ call.caller = i)
                => (call.k = 14 /\ call.imageData = FaceRegion("skin"))
             /\ procs[i].dominantColors # NULL
                => /\ Len(procs[i].dominantColors[1]) = 14
                   /\ procs[i].skinAnalysis # NULL
                   /\ LET r == procs[i].skinAnalysis[1]
                      IN  /\ r.skinToneLevel.number = 6
                          /\ r.skinToneLevel.name = "Tan"
                          /\ r.skinToneType = "warm"
                          /\ r.undertone = "Golden/Yellow"
                          /\ r.recommendations.clothing = generateRecommendations("warm").clothing
                          /\ r.recommendations.makeup = generateRecommendations("warm").makeup
                          /\ Len(r.recommendations.clothing) > 0
                          /\ Len(r.recommendations.makeup) > 0

\* An invocation on the uniform buffer has ended with an analysis, which is
\* the one shown.
C6_Witness ==
    \E i \in 1..Len(procs) :
        /\ procs[i].file = "skin"
        /\ procs[i].pc = "done"
        /\ procs[i].outcome = "analysis"
        /\ procs[i].skinAnalysis # NULL
        /\ analysis = procs[i].skinAnalysis

\* C6 (as stated): the same buffer, analysed with k = 14, passes the sampling
\* filter and yields level 5 'Golden Beige', undertone warm 'Golden/Yellow',
\* and the non-empty clothing and makeup palettes of the warm entry.
C6_UniformSkinBufferIsGoldenBeige ==
    \A i \in 1..Len(procs) :
        (procs[i].file = "skin" /\ procs[i].dominantColors # NULL)
        => /\ Len(procs[i].dominantColors[1]) = 14
           /\ procs[i].skinAnalysis # NULL
           /\ LET r == procs[i].skinAnalysis[1]
              IN  /\ r.skinToneLevel.number = 5
                  /\ r.skinToneLevel.name = "Golden Beige"
                  /\ r.skinToneType = "warm"
                  /\ r.undertone = "Golden/Yellow"
                  /\ r.recommendations.clothing = generateRecommendations("warm").clothing
                  /\ r.recommendations.makeup = generateRecommendations("warm").makeup
                  /\ Len(r.recommendations.clothing) > 0
                  /\ Len(r.recommendations.makeup) > 0

\* C7: classification is monotone in lightness: of two non-empty colour
\* sequences, the one with the greater mean lightness gets a level number
\* less than or equal to the other's.
C7_LevelMonotone ==
    (/\ Len(results) = 2
     /\ inputs[1] # <<>>
     /\ inputs[2] # <<>>
     /\ RatLess(avgLightnessOf(inputs[2]), avgLightnessOf(inputs[1])))
    => results[1].skinToneLevel.number <= results[2].skinToneLevel.number

\* Two sequences, the first lighter than the second, one in the row of level
\* 6 and the other in the row of level 7.
C7_Witness ==
    /\ Len(results) = 2
    /\ inputs[1] # <<>>
    /\ inputs[2] # <<>>
    /\ RatLess(avgLightnessOf(inputs[2]), avgLightnessOf(inputs[1]))
    /\ results[1].skinToneLevel.number = 6
    /\ results[2].skinToneLevel.number = 7

\* C8 (as stated): at a level >= 7 the result holds one more outfit palette
\* and one more example phrase than a result of the same undertone category
\* at a level below 7, for warm, cool and neutral alike.
C8_DarkLevelsGetOneMore ==
    (/\ Len(results) = 2
     /\ results[1].skinToneType = results[2].skinToneType
     /\ results[1].skinToneLevel.number >= 7
     /\ results[2].skinToneLevel.number < 7)
    => /\ Len(results[1].outfitPalettes) = Len(results[2].outfitPalettes) + 1
       /\ Len(results[1].outfitExamples) = Len(results[2].outfitExamples) + 1

\* C9: two colour sequences that get the same undertone category get the same
\* clothing, makeup, lip and eyeshadow palettes, whatever their levels.
C9_PalettesIgnoreLightness ==
    (Len(results) = 2 /\ results[1].skinToneType = results[2].skinToneType)
    => /\ results[1].recommendations.clothing = results[2].recommendations.clothing
       /\ results[1].recommendations.makeup = results[2].recommendations.makeup
       /\ results[1].recommendations.lipColors = results[2].recommendations.lipColors
       /\ results[1].recommendations.eyeshadow = results[2].recommendations.eyeshadow

\* Two results of the same category, one at a level >= 7 and one below.
C9_Witness ==
    /\ Len(results) = 2
    /\ results[1].skinToneType = results[2].skinToneType
    /\ results[1].skinToneLevel.number >= 7
    /\ results[2].skinToneLevel.number < 7
    /\ results[1].recommendations = results[2].recommendations

\* C10: for every undertone category and both values of the level >= 7 flag
\* the result holds non-empty clothing, makeup, lip and eyeshadow palettes, at
\* least one outfit palette and at least one example phrase.
C10_CatalogComplete ==
    \A n \in 1..Len(results) :
        /\ results[n].skinToneType \in {"warm", "cool", "neutral"}
        /\ Len(results[n].recommendations.clothing) > 0
        /\ Len(results[n].recommendations.makeup) > 0
        /\ Len(results[n].recommendations.lipColors) > 0
        /\ Len(results[n].recommendations.eyeshadow) > 0
        /\ Len(results[n].outfitPalettes) >= 1
        /\ \A p \in 1..Len(results[n].outfitPalettes) :
              Len(results[n].outfitPalettes[p].colors) > 0
        /\ Len(results[n].outfitExamples) >= 1

\* Two results that differ in both the category and the flag: a neutral one
\* at a level >= 7 and a cool one below 7.
C10_Witness ==
    /\ Len(results) = 2
    /\ results[1].skinToneType = "neutral"
    /\ results[1].skinToneLevel.number >= 7
    /\ results[2].skinToneType = "cool"
    /\ results[2].skinToneLevel.number < 7
    /\ Len(results[1].outfitExamples) >= 1
    /\ Len(results[2].outfitPalettes) >= 1

\* C11: in every result the clothing palette has exactly 6 hex colours, the
\* makeup, lip and eyeshadow palettes have exactly 4 each, every outfit
\* palette is a named group of exactly 5 hex colours, 4 or 5 outfit palettes
\* are returned, and a result below level 7 has the 2 baseline example phrases.
C11_CatalogShape ==
    LET IsHex(s) ==
            /\ Len(s) = 7
            /\ SubSeq(s, 1, 1) = "#"
            /\ \A i \in 2..7 : IsHexChar(SubSeq(s, i, i))
        HexPalette(p, n) == Len(p) = n /\ \A i \in 1..Len(p) : IsHex(p[i])
    IN  \A n \in 1..Len(results) :
            /\ HexPalette(results[n].recommendations.clothing, 6)
            /\ HexPalette(results[n].recommendations.makeup, 4)
            /\ HexPalette(results[n].recommendations.lipColors, 4)
            /\ HexPalette(results[n].recommendations.eyeshadow, 4)
            /\ Len(results[n].outfitPalettes) \in {4, 5}
            /\ \A p \in 1..Len(results[n].outfitPalettes) :
                  /\ Len(results[n].outfitPalettes[p].name) > 0
                  /\ HexPalette(results[n].outfitPalettes[p].colors, 5)
            /\ results[n].skinToneLevel.number < 7 => Len(results[n].outfitExamples) = 2

\* A warm result below level 7 beside a cool result at level 7 or above.
C11_Witness ==
    /\ Len(results) = 2
    /\ results[1].skinToneType = "warm"
    /\ results[1].skinToneLevel.number < 7
    /\ Len(results[1].outfitExamples) = 2
    /\ results[2].skinToneType = "cool"
    /\ results[2].skinToneLevel.number >= 7
    /\ Len(results[2].outfitPalettes) = 4

\* C12: for integer channels r, g, b in 0..255, parsing the string that
\* rgbToHex(r, g, b) returns, by the slices analyzeSkinTone takes, gives back
\* exactly r, g and b.
C12_HexRoundTrip ==
    (Called("parse") /\ \A c \in 1..3 : inputs[c] \in {<<v, 1>> : v \in 0..255})
    => ResultOf("parse") = inputs

\* A colour with a one-digit channel, a two-digit channel and a zero channel
\* has been rendered and parsed back.
C12_Witness ==
    /\ inputs = <<Num(9), Num(200), Num(0)>>
    /\ Called("rgbToHex")
    /\ ResultOf("rgbToHex") = "#09c800"
    /\ Called("parse")
    /\ ResultOf("parse") = <<Num(9), Num(200), Num(0)>>

\* C13 (as stated): for any numeric channels, also below 0 or above 255,
\* rgbToHex returns '#' followed by exactly two lowercase hex digits per
\* channel, each channel rounded to the nearest integer and clamped to 0..255.
C13_HexClamped ==
    Called("rgbToHex")
    => LET hex == ResultOf("rgbToHex")
           Rounded(x) == (2 * x[1] + x[2]) \div (2 * x[2])
           Clamped(x) == IF Rounded(x) < 0 THEN 0
                         ELSE IF Rounded(x) > 255 THEN 255 ELSE Rounded(x)
           Digit(v) == SubSeq("0123456789abcdef", v + 1, v + 1)
       IN  /\ Len(hex) = 7
           /\ SubSeq(hex, 1, 1) = "#"
           /\ \A c \in 1..3 :
                 /\ SubSeq(hex, 2 * c, 2 * c) = Digit(Clamped(inputs[c]) \div 16)
                 /\ SubSeq(hex, 2 * c + 1, 2 * c + 1) = Digit(Clamped(inputs[c]) % 16)

\* C14: for integer channels in 0..255, rgbToHsl returns a hue h with
\* 0 <= h < 360, a saturation s with 0 <= s <= 100 and a lightness l with
\* 0 <= l <= 100.
C14_HslBounds ==
    (Called("rgbToHsl") /\ \A c \in 1..3 : inputs[c] \in {<<v, 1>> : v \in 0..255})
    => LET hsl == ResultOf("rgbToHsl")
           Within(x, lo, hi) == x[2] > 0 /\ lo * x[2] <= x[1] /\ x[1] <= hi * x[2]
       IN  /\ Within(hsl[1], 0, 360)
           /\ hsl[1] # <<360, 1>>
           /\ Within(hsl[2], 0, 100)
           /\ Within(hsl[3], 0, 100)

\* rgbToHsl has returned for a colour whose red is greatest and whose green is
\* below its blue: the hue is in the last sixth of the circle.
C14_Witness ==
    /\ inputs = <<Num(200), Num(9), Num(128)>>
    /\ Called("rgbToHsl")
    /\ RatGeq(ResultOf("rgbToHsl")[1], 300)
    /\ RatLess(ResultOf("rgbToHsl")[1], Num(360))

\* C15: for every x in 0..255, rgbToHsl(x, x, x) returns hue 0, saturation 0
\* and lightness x / 255 * 100.
C15_Achromatic ==
    (/\ Called("rgbToHsl")
     /\ inputs[1] \in {<<v, 1>> : v \in 0..255}
     /\ inputs[2] = inputs[1]
     /\ inputs[3] = inputs[1])
    => LET hsl == ResultOf("rgbToHsl")
       IN  /\ hsl[1] = <<0, 1>>
           /\ hsl[2] = <<0, 1>>
           /\ hsl[3][2] > 0
           /\ hsl[3][1] * 255 = hsl[3][2] * inputs[1][1] * 100

\* rgbToHsl has returned for the grey (128, 128, 128).
C15_Witness ==
    /\ inputs = <<Num(128), Num(128), Num(128)>>
    /\ Called("rgbToHsl")
    /\ ResultOf("rgbToHsl")[1] = Num(0)
    /\ ResultOf("rgbToHsl")[3] = Rat(12800, 255)

\* C16: two calls of extractDominantColors on the same buffer with the same k
\* that draw the same sequence of initial centroid indices return the same
\* colour sequence: the draws are the only source of non-determinism.
C16_SameDrawsSameColors ==
    (call.pc = "returned" /\ Len(results) = 1 /\ inputs = results[1].draws)
    => dominantColors = results[1].colors

\* The second call has returned after the same draws as the first, two of
\* them of different pixels.
C16_Witness ==
    /\ call.pc = "returned"
    /\ Len(results) = 1
    /\ inputs = results[1].draws
    /\ Len(inputs) >= 2
    /\ \E i \in 1..Len(inputs), j \in 1..Len(inputs) : inputs[i] # inputs[j]
    /\ dominantColors = results[1].colors
    /\ Len(dominantColors) = call.k

C18_SamplingRule ==
    call.pc \in {"init", "iterate", "returned"}
    => LET data == call.imageData
           Kept == {o \in 0..(Len(data) - 1) :
                      /\ o % 16 = 0
                      /\ o + 4 <= Len(data)
                      /\ data[o + 4] > 200
                      /\ \A c \in 1..3 : data[o + c] > 30 /\ data[o + c] < 250}
       IN  /\ Len(pixels) = Cardinality(Kept)
           /\ \A j \in 1..Len(pixels) :
                 \E o \in Kept :
                    /\ Cardinality({p \in Kept : p < o}) = j - 1
                    /\ pixels[j] = <<data[o + 1], data[o + 2], data[o + 3]>>

\* The buffer with samples at alpha 200, red 250 and blue 30 among retained
\* ones has been sampled: three pixels are retained, in buffer order.
C18_Witness ==
    /\ call.pc = "init"
    /\ call.imageData = MixedImage
    /\ pixels = << <<200, 150, 120>>, <<100, 60, 50>>, <<211, 161, 130>> >>

\* C19: with a non-empty sample set the k-means loop makes exactly 10
\* assignment/update rounds and then the call returns, for every buffer and
\* every choice of initial centroids: never an 11th round, and no return
\* before the 10th even when the centroids have stopped moving.
C19_ExactlyTenRounds ==
    /\ [](iter <= 10)
    /\ []((call.pc = "returned" /\ Len(pixels) > 0) => iter = 10)
    /\ <>(call.pc = "returned")

\* The call on the uniform buffer, whose centroids never move, has returned
\* after 10 rounds.
C19_Witness ==
    /\ call.pc = "returned"
    /\ call.imageData = SkinImage
    /\ Len(pixels) > 0
    /\ iter = 10

\* C20: in every round each sample goes to exactly one cluster, that of a
\* centroid at minimum Euclidean RGB distance from it, and of several
\* centroids at that minimum distance the one with the lowest index.
C20_NearestLowestIndex ==
    [][(call.pc = "iterate" /\ iter' = iter + 1)
       => LET Sq(x) == x * x
              \* the squared distance from p to centroid z, times Sq(z[4])
              D(p, z) == Sq(p[1] * z[4] - z[1]) + Sq(p[2] * z[4] - z[2]) + Sq(p[3] * z[4] - z[3])
              Nearer(p, a, b) == D(p, a) * Sq(b[4]) < D(p, b) * Sq(a[4])
          IN  /\ Len(clusters') = call.k
              /\ \A c \in 1..call.k : \A j \in 1..Len(clusters'[c]) :
                    \A d \in 1..call.k :
                       /\ ~Nearer(clusters'[c][j], centroids[d], centroids[c])
                       /\ d < c => Nearer(clusters'[c][j], centroids[c], centroids[d])
              /\ \A j \in 1..Len(pixels) : \E c \in 1..call.k :
                    Cardinality({i \in 1..Len(clusters'[c]) : clusters'[c][i] = pixels[j]})
                      = Cardinality({i \in 1..Len(pixels) : pixels[i] = pixels[j]})
      ]_vars

\* After the first round a cluster is empty although its centroid is still
\* the pixel it started from: a centroid of lower index at the same distance,
\* 0, received that pixel.
C20_Witness ==
    /\ call.pc = "iterate"
    /\ iter = 1
    /\ \E d \in 1..Len(clusters) :
          /\ clusters[d] = <<>>
          /\ \E j \in 1..Len(pixels) : CentroidOf(pixels[j]) = centroids[d]
    /\ \E c \in 1..Len(clusters) : Len(clusters[c]) > 0
    /\ Cardinality({pixels[j] : j \in 1..Len(pixels)}) > 1

\* C21: at the end of each round a centroid whose cluster received a sample is
\* the per-channel arithmetic mean of exactly the samples assigned to it in
\* that round, and a centroid whose cluster received none has the value it had
\* before the round.
C21_CentroidUpdate ==
    [][(call.pc = "iterate" /\ iter' = iter + 1)
       => LET RECURSIVE Sum(_, _, _)
              Sum(cluster, ch, n) == IF n = 0 THEN 0 ELSE Sum(cluster, ch, n - 1) + cluster[n][ch]
          IN  /\ Len(centroids') = Len(centroids)
              /\ \A c \in 1..Len(centroids) :
                    IF Len(clusters'[c]) > 0
                    THEN /\ centroids'[c][4] > 0
                         /\ \A ch \in 1..3 :
                               centroids'[c][ch] * Len(clusters'[c])
                                 = Sum(clusters'[c], ch, Len(clusters'[c])) * centroids'[c][4]
                    ELSE centroids'[c] = centroids[c]
      ]_vars

\* A round has ended with one cluster of different samples, whose centroid is
\* none of them, and one cluster without samples.
C21_Witness ==
    /\ call.pc = "iterate"
    /\ iter >= 1
    /\ \E c \in 1..Len(clusters) :
          /\ Len(clusters[c]) >= 2
          /\ clusters[c][1] # clusters[c][2]
          /\ \A j \in 1..Len(clusters[c]) : centroids[c] # CentroidOf(clusters[c][j])
    /\ \E d \in 1..Len(clusters) : clusters[d] = <<>>

\* C22: the undertone uses the plain linear mean of the hues: the two colours
\* '#46282d' and '#462d28', whose hues are 350 and 10 degrees, have avgHue 180
\* and are classified neutral 'Balanced', not cool.
C22_LinearHueMean ==
    \A n \in 1..Len(results) :
        inputs[n] \in {<<"#46282d", "#462d28">>, <<"#462d28", "#46282d">>}
        => /\ {HexToHsl(inputs[n][1])[1], HexToHsl(inputs[n][2])[1]} = {<<350, 1>>, <<10, 1>>}
           /\ avgHueOf(inputs[n]) = <<180, 1>>
           /\ results[n].skinToneType = "neutral"
           /\ results[n].undertone = "Balanced"

\* analyzeSkinTone has returned for the two colours of hues 350 and 10, each
\* of which alone is classified cool.
C22_Witness ==
    /\ Len(results) = 2
    /\ inputs[1] = <<"#46282d", "#462d28">>
    /\ results[1].skinToneType = "neutral"
    /\ inputs[2] = <<"#46282d">>
    /\ results[2].skinToneType = "cool"

\* C23: once the samples are taken, after each pass of the initialisation and
\* after each round, every channel of every centroid lies between the least
\* and the greatest value of that channel over the retained samples, hence
\* strictly between 30 and 250; every returned colour is then '#' followed
\* by six hexadecimal digits.
C23_CentroidsInSampleRange ==
    (call.pc \in {"init", "iterate", "returned"} /\ pixels # <<>>)
    => /\ \A c \in 1..Len(centroids), ch \in 1..3 :
             LET n == centroids[c][4]
                 x == centroids[c][ch]
             IN  /\ n > 0
                 /\ \E j \in 1..Len(pixels) : pixels[j][ch] * n <= x
                 /\ \E j \in 1..Len(pixels) : x <= pixels[j][ch] * n
                 /\ 30 * n < x
                 /\ x < 250 * n
       /\ call.pc = "returned"
          => /\ Len(dominantColors) = call.k
             /\ \A c \in 1..Len(dominantColors) :
                   /\ Len(dominantColors[c]) = 7
                   /\ SubSeq(dominantColors[c], 1, 1) = "#"
                   /\ \A i \in 2..7 : IsHexChar(SubSeq(dominantColors[c], i, i))

\* A call has returned a colour whose centroid is the mean of several
\* different samples and equals none of them.
C23_Witness ==
    /\ call.pc = "returned"
    /\ iter = Rounds
    /\ \E c \in 1..Len(centroids) :
          /\ centroids[c][4] > 1
          /\ Len(clusters[c]) >= 2
          /\ \A j \in 1..Len(pixels) : centroids[c] # CentroidOf(pixels[j])
          /\ Len(dominantColors[c]) = 7

\* C24: after every round the clusters are a partition of the sample list:
\* there is one cluster for each centroid, every sample value occurs in the
\* clusters together exactly as often as in pixels, so the cluster sizes sum
\* to the number of retained samples, and some cluster is non-empty.
C24_ClustersPartition ==
    (call.pc \in {"iterate", "returned"} /\ iter >= 1)
    => LET RECURSIVE Total(_)
           Total(c) == IF c = 0 THEN 0 ELSE Total(c - 1) + Len(clusters[c])
           Count(seq, v) == Cardinality({j \in 1..Len(seq) : seq[j] = v})
           RECURSIVE CountAll(_, _)
           CountAll(c, v) == IF c = 0 THEN 0 ELSE CountAll(c - 1, v) + Count(clusters[c], v)
       IN  /\ Len(clusters) = Len(centroids)
           /\ Len(clusters) = call.k
           /\ Total(Len(clusters)) = Len(pixels)
           /\ \A j \in 1..Len(pixels) :
                 CountAll(Len(clusters), pixels[j]) = Count(pixels, pixels[j])
           /\ \E c \in 1..Len(clusters) : Len(clusters[c]) > 0

\* A round has split the samples over two clusters while two centroids were
\* equally close to some sample.
C24_Witness ==
    /\ call.pc = "iterate"
    /\ iter >= 1
    /\ \E c, d \in 1..Len(clusters) :
          /\ c < d
          /\ Len(clusters[c]) > 0
          /\ Len(clusters[d]) > 0
    /\ \E c, d \in 1..Len(centroids) : c < d /\ centroids[c] = centroids[d]

\* C25: k-means fixed point: once a round has left every centroid unchanged,
\* every later round leaves every centroid unchanged too, and the colours
\* returned are the renderings of the centroids of that round.
C25_FixedPoint ==
    results # <<>>
    => /\ centroids = results[1]
       /\ call.pc = "returned" => dominantColors = RenderCentroids(results[1])

\* A call has returned whose centroids moved in its first round, were left
\* unchanged by a later round, one of them without any sample.
C25_Witness ==
    /\ call.pc = "returned"
    /\ iter = Rounds
    /\ results # <<>>
    /\ \E c \in 1..Len(results[1]) : results[1][c][4] > 1
    /\ \E c \in 1..Len(clusters) : clusters[c] = <<>>

(***************************************************************************)
(* The component with one processImage invocation at a time                *)
(***************************************************************************)
\* No invocation of processImage is in flight and no retry fetch is pending.
Quiescent ==
    /\ fetches = <<>>
    /\ \A i \in 1..Len(procs) : procs[i].pc = "done"

\* The continuations of a running invocation up to the k-means loop, and the
\* return from it: the event loop runs each of them once it is pending.
Progress ==
    \/ \E i \in 1..Len(procs) : ImageLoaded(i)
    \/ \E i \in 1..Len(procs) : ImageFailed(i)
    \/ \E i \in 1..Len(procs), faceDetected \in BOOLEAN : FaceDetectResolved(i, faceDetected)
    \/ Sample
    \/ InitCentroid
    \/ Return

\* The part of Round that counts the pass: a step of the specification that
\* satisfies it and changes iter is a Round step, and it is enabled exactly
\* when Round is.
RoundTaken == call.pc = "iterate" /\ iter < Rounds /\ iter' = iter + 1

\* The part of FinishProcess that takes the returned colours back into
\* processImage: a step that satisfies it and changes call is a
\* FinishProcess step, and it is enabled exactly when FinishProcess is.
ColorsTaken == call.pc = "returned" /\ call' = NoCall

\* The user acts only between invocations.
NextSingle ==
    \/ Quiescent /\ \E file \in Files, ctxOk \in BOOLEAN : handleImageUpload(file, ctxOk)
    \/ Quiescent /\ handleRemoveImage
    \/ Quiescent /\ handleRetry
    \/ \E j \in 1..Len(fetches), ctxOk \in BOOLEAN : RetryResolved(j, ctxOk)
    \/ \E j \in 1..Len(fetches) : RetryFailed(j)
    \/ \E i \in 1..Len(procs) : ImageLoaded(i)
    \/ \E i \in 1..Len(procs) : ImageFailed(i)
    \/ \E i \in 1..Len(procs), faceDetected \in BOOLEAN : FaceDetectResolved(i, faceDetected)
    \/ Sample
    \/ InitCentroid
    \/ Round
    \/ Return
    \/ \E i \in 1..Len(procs) : FinishProcess(i)

SpecSingle == Init /\ [][NextSingle]_vars

\* Synchronous code runs on and every pending continuation is run.
SpecSingleFair ==
    SpecSingle /\ WF_vars(Progress) /\ WF_iter(RoundTaken) /\ WF_call(ColorsTaken)

\* C26: a processImage run with no other handler interleaved always
\* finishes, and the step that finishes it leaves isAnalyzing false and
\* exactly one of the two outcomes: analysis set and error empty, or error
\* non-empty and analysis null.
C26_AllOrNothing ==
    /\ [][(\E i \in 1..Len(procs') :
               /\ procs'[i].pc = "done"
               /\ (i > Len(procs) \/ procs[i].pc # "done"))
          => /\ isAnalyzing' = FALSE
             /\ \/ analysis' # NULL /\ error' = ""
                \/ analysis' = NULL /\ error' # ""
         ]_vars
    /\ \A i \in 1..MaxInvocations :
          (Len(procs) >= i) ~> (Len(procs) >= i /\ procs[i].pc = "done")

\* A failed run was retried and the retried run, which started with error
\* set, has finished with an analysis.
C26_Witness ==
    /\ Len(procs) = 2
    /\ procs[1].outcome = NoFace
    /\ procs[2].outcome = "analysis"
    /\ Quiescent
    /\ analysis # NULL
    /\ error = ""
    /\ isAnalyzing = FALSE

\* C27 (as stated): in every reachable state of the component, under any
\* interleaving of uploads, retries, removals and completions, analysis and
\* error are never both set.
C27_NeverBothSet == ~(analysis # NULL /\ error # "")

\* C28 (as stated): in every reachable state of the component, isAnalyzing
\* is true whenever some processImage invocation has started and has not
\* finished, also when two invocations overlap.
C28_AnalyzingWhileRunning ==
    (\E i \in 1..Len(procs) : procs[i].pc # "done") => isAnalyzing

\* C29 (as stated): in every reachable state of the component, a non-null
\* analysis implies a non-empty uploadedImage, also when an invocation was in
\* flight at the time the image was removed.
C29_AnalysisNeedsImage == analysis # NULL => uploadedImage # NoImage

\* C30 (as stated): an invocation that started before another one, whose
\* image is in uploadedImage, and that finishes after it, never overwrites
\* the analysis or the error the later invocation has left.
C30_LastStartedWins ==
    [][\A i, j \in 1..Len(procs) :
          (/\ i < j
           /\ procs[j].pc = "done"
           /\ uploadedImage = ObjectURL(procs[j].file, j)
           /\ procs[i].pc # "done"
           /\ procs'[i].pc = "done")
          => /\ analysis' = analysis
             /\ error' = error
      ]_vars

====
